---- MODULE Spec2Model ----
(***************************************************************************)
(* Shift detection, alert ledger, snapshot ingestion and the per-market    *)
(* websocket broadcast loop of the polymarket tracker backend.             *)
(*                                                                         *)
(* Units.  Time is counted in ticks of 15 minutes.  Probabilities and      *)
(* prices are counted in hundredths (0.40 is 40).  delta_percent is the    *)
(* exact rational 100*delta/prev_prob, kept as the pair <<num, den>>.      *)
(* Inputs are chosen away from the exact threshold boundaries, where the   *)
(* binary floating point of the program and exact arithmetic could differ. *)
(***************************************************************************)
EXTENDS Integers, Sequences, FiniteSets, TLC

VARIABLES
    now,                \* datetime.utcnow(), in ticks
    tracked_market,     \* table tracked_market: set of market ids
    outcome,            \* table outcome: rows in insertion order, id = index
    snapshot,           \* table snapshot: rows in insertion (= time) order
    alert,              \* table alert: rows in insertion order, id = index
    pass,               \* per refresh pass: the markets still to ingest, or idle
    started,            \* number of refresh passes begun so far
    reply,              \* the latest step's HTTP answer, NoReply if it was no request
    active_connections, \* ConnectionManager.active_connections
    connection_markets, \* ConnectionManager.connection_markets
    broadcast_tasks,    \* ConnectionManager.broadcast_tasks
    tasks,              \* the asyncio tasks created for _broadcast_loop
    sock                \* per websocket: the state of its endpoint handler

dbvars == <<now, tracked_market, outcome, snapshot, alert, pass, started, reply>>
wsvars == <<active_connections, connection_markets, broadcast_tasks, tasks, sock>>
vars == <<now, tracked_market, outcome, snapshot, alert, pass, started, reply,
          active_connections, connection_markets, broadcast_tasks, tasks, sock>>

(***************************************************************************)
(* Bounds of the model.                                                    *)
(***************************************************************************)
MaxTime == 5
MaxLedgerTime == 2
MaxPasses == 3
NumSockets == 2
MaxIngestPasses == 2

(***************************************************************************)
(* config.py                                                               *)
(***************************************************************************)
ABSOLUTE_DELTA_THRESHOLD == 5
RELATIVE_DELTA_THRESHOLD == 20
MIN_VOLUME_THRESHOLD == 100
\* In ticks: 15 minutes of cooldown, 1 hour of detection window.
ALERT_COOLDOWN_MINUTES == 1
SHIFT_DETECTION_WINDOW_HOURS == 4

\* Python's None (a missing column value, a missing dictionary key).
None == 0 - 1

Abs(x) == IF x < 0 THEN 0 - x ELSE x

\* Python truthiness of an optional number: None and 0 are falsy.
Truthy(v) == v # None /\ v # 0

Range(s) == {s[i] : i \in DOMAIN s}

\* The ids of the rows of tracked_market.
Markets == {1}
Passes == {"job", "manual"}
Sockets == 1 .. NumSockets

\* The market ids a websocket can ask for; 0 is never a row of tracked_market.
WsMarketIds == {0, 1}

\* A websocket no client has opened yet.
NoSocket == [state |-> "none", market_id |-> 0]

(***************************************************************************)
(* The database session: the four tables the core reads and writes.        *)
(***************************************************************************)
DB == [tracked_market |-> tracked_market, outcome |-> outcome,
       snapshot |-> snapshot, alert |-> alert]

\* dict.get(key): the value, or None when the key is absent.
Get(d, k) == IF k \in DOMAIN d THEN d[k] ELSE None

Front(s) == SubSeq(s, 1, Len(s) - 1)
Last(s) == s[Len(s)]
Reverse(s) == [i \in 1 .. Len(s) |-> s[Len(s) + 1 - i]]

RECURSIVE Concat(_)
Concat(ss) == IF ss = <<>> THEN <<>> ELSE Head(ss) \o Concat(Tail(ss))

RECURSIVE SumPrices(_)
SumPrices(os) ==
    IF os = <<>> THEN 0
    ELSE (IF Truthy(Get(Head(os), "price")) THEN Head(os).price ELSE 0)
         + SumPrices(Tail(os))

(***************************************************************************)
(* services/snapshot_service.py                                            *)
(***************************************************************************)
\* One hundredth is the unit of a probability: float 1.0 is ProbScale.
ProbScale == 10 * 10

\* What the Gamma API can answer for market m: an event with its two outcomes
\* (prices in hundredths) and, optionally, a volume.
EventWith(m, yes, no) ==
    [outcomes |-> << [id |-> m * 10 + 1, name |-> "Yes", price |-> yes],
                     [id |-> m * 10 + 2, name |-> "No", price |-> no] >>]

Event(m, yes, no, volume) ==
    IF volume = None THEN EventWith(m, yes, no)
    ELSE [outcomes |-> EventWith(m, yes, no).outcomes, volume |-> volume]

MarketStates(m) ==
    { Event(m, 17, 83, 500),
      Event(m, 20, 80, 1000), Event(m, 21, 79, 1000),
      Event(m, 40, 60, 500),
      Event(m, 40, 60, 50), Event(m, 40, 60, 0), Event(m, 40, 60, None) }

\* The JSON object {}: "if not market_data: return".
EmptyResponse == <<>>

\* The answers that leave create_snapshot_for_market without market data:
\* fetch_market_data returns None on an HTTP error status, raises on a network
\* error (httpx.RequestError is not caught there), or returns the empty object.
Unavailable ==
    {[status |-> "http_error"], [status |-> "network_error"],
     [status |-> "ok", json |-> EmptyResponse]}

\* fetch_market_data: one of the events, or no market data.
FetchResults(events) ==
    {[status |-> "ok", json |-> e] : e \in events} \cup Unavailable

\* The rows extract_snapshot_data builds for one market of the event.
MarketRows(market, market_data) ==
    LET outcomes == IF "outcomes" \in DOMAIN market THEN market.outcomes ELSE <<>>
        volume == IF Truthy(Get(market, "volume")) THEN market.volume
                  ELSE IF "volume" \in DOMAIN market_data THEN market_data.volume
                  ELSE 0
        liquidity == IF Truthy(Get(market, "liquidity")) THEN market.liquidity
                     ELSE IF "liquidity" \in DOMAIN market_data
                          THEN market_data.liquidity ELSE 0
        total_price == SumPrices(outcomes)
        Row(o) ==
            LET price == IF Truthy(Get(o, "price")) THEN o.price ELSE 0
            IN [outcome_id |-> IF Truthy(Get(o, "id")) THEN o.id
                                ELSE Get(o, "outcome_id"),
                outcome_name |-> IF "title" \in DOMAIN o THEN o.title
                                 ELSE Get(o, "name"),
                prob |-> IF total_price > 0
                         THEN (price * ProbScale) \div total_price
                         ELSE IF Len(outcomes) > 0
                              THEN ProbScale \div Len(outcomes) ELSE 0,
                volume |-> volume,
                liquidity |-> IF Truthy(liquidity) THEN liquidity ELSE None]
    IN [i \in 1 .. Len(outcomes) |-> Row(outcomes[i])]

\* extract_snapshot_data raises: an outcome that is no JSON object has no .get
\* (AttributeError), and float() of a price that is no number raises ValueError.
\* A JSON string in the place of an outcome is written [not_a_dict |-> text], a
\* JSON string under the key "price" is written as the field price_text.
ExtractRaises(market_data) ==
    LET markets == IF "markets" \in DOMAIN market_data /\ market_data.markets # <<>>
                   THEN market_data.markets
                   ELSE IF "outcomes" \in DOMAIN market_data
                           /\ market_data.outcomes # <<>>
                        THEN <<market_data>> ELSE <<>>
    IN \E i \in DOMAIN markets :
          /\ "outcomes" \in DOMAIN markets[i]
          /\ \E j \in DOMAIN markets[i].outcomes :
                \/ "not_a_dict" \in DOMAIN markets[i].outcomes[j]
                \/ "price_text" \in DOMAIN markets[i].outcomes[j]

extract_snapshot_data(market_data) ==
    LET markets == IF "markets" \in DOMAIN market_data /\ market_data.markets # <<>>
                   THEN market_data.markets
                   ELSE IF "outcomes" \in DOMAIN market_data
                           /\ market_data.outcomes # <<>>
                        THEN <<market_data>> ELSE <<>>
    IN Concat([i \in 1 .. Len(markets) |-> MarketRows(markets[i], market_data)])

\* The loop of create_snapshot_for_market over the extracted rows: get or create
\* the Outcome of each row, then add its Snapshot.  clock[i] is what
\* datetime.utcnow() answers for the i-th row still to write.
RECURSIVE WriteRowsAt(_, _, _, _)
WriteRowsAt(db, market_id, rows, clock) ==
    IF rows = <<>> THEN db
    ELSE LET snap_data == Head(rows)
             known == {i \in DOMAIN db.outcome :
                          /\ db.outcome[i].market_id = market_id
                          /\ db.outcome[i].outcome_id = snap_data.outcome_id}
             id == IF known = {} THEN Len(db.outcome) + 1
                   ELSE CHOOSE i \in known : \A j \in known : j <= i
             outcomes == IF known # {} THEN db.outcome
                         ELSE Append(db.outcome,
                                     [id |-> id, market_id |-> market_id,
                                      outcome_id |-> snap_data.outcome_id,
                                      name |-> snap_data.outcome_name])
             row == [market_id |-> market_id, outcome_id |-> id,
                     prob |-> snap_data.prob, volume |-> snap_data.volume,
                     liquidity |-> snap_data.liquidity, ts |-> Head(clock)]
         IN WriteRowsAt([db EXCEPT !.outcome = outcomes,
                                   !.snapshot = Append(db.snapshot, row)],
                        market_id, Tail(rows), Tail(clock))

\* The same loop when the clock does not move while it runs.
WriteRows(db, market_id, rows) ==
    WriteRowsAt(db, market_id, rows, [i \in 1 .. Len(rows) |-> now])

\* Mutant: without market data the batch of a default event is written.
create_snapshot_for_market_default(db, market_id, response) ==
    IF market_id \notin db.tracked_market THEN db
    ELSE IF response \in Unavailable
    THEN WriteRows(db, market_id, extract_snapshot_data(Event(market_id, 50, 50, 0)))
    ELSE WriteRows(db, market_id, extract_snapshot_data(response.json))

\* create_snapshot_for_market, resumed with the answer of fetch_market_data.
\* An exception raised by the fetch is caught by refresh_all_tracked_markets.
create_snapshot_for_market(db, market_id, response) ==
    IF market_id \notin db.tracked_market THEN db
    ELSE IF response.status # "ok" THEN db
    ELSE IF DOMAIN response.json = DOMAIN EmptyResponse THEN db
    ELSE IF ExtractRaises(response.json) THEN db
    ELSE WriteRows(db, market_id, extract_snapshot_data(response.json))

(***************************************************************************)
(* services/alert_detection.py                                             *)
(***************************************************************************)
\* Mutant: the window is one tick too wide.
cutoff_time_wide == now - SHIFT_DETECTION_WINDOW_HOURS - 1

cutoff_time == now - SHIFT_DETECTION_WINDOW_HOURS

\* Mutant: the cooldown cutoff lies in the future, so no alert is recent.
cooldown_cutoff_late == now + 1

cooldown_cutoff == now - ALERT_COOLDOWN_MINUTES

\* The snapshots of the market inside the window, newest first.  Timestamps
\* grow with the insertion order, so ts.desc() is the reverse of that order.
recent_snapshots(db, market_id) ==
    Reverse(SelectSeq(db.snapshot,
                      LAMBDA s : s.market_id = market_id /\ s.ts >= cutoff_time))

\* The keys of the outcome_snapshots dictionary, in order of first insertion.
RECURSIVE OutcomeKeys(_)
OutcomeKeys(snaps) ==
    IF snaps = <<>> THEN <<>>
    ELSE LET keys == OutcomeKeys(Front(snaps))
         IN IF Last(snaps).outcome_id \in Range(keys) THEN keys
            ELSE Append(keys, Last(snaps).outcome_id)

\* Mutant: the query filters the outcome column by the market id.
recent_alert_wrong_column(db, market_id, outcome_id) ==
    \E i \in DOMAIN db.alert :
        /\ db.alert[i].market_id = market_id
        /\ db.alert[i].outcome_id = market_id
        /\ db.alert[i].ts >= now - ALERT_COOLDOWN_MINUTES
        /\ db.alert[i].status = "active"

\* Mutant: an active alert of the pair suppresses for ever.
recent_alert_for_ever(db, market_id, outcome_id) ==
    \E i \in DOMAIN db.alert :
        /\ db.alert[i].market_id = market_id
        /\ db.alert[i].outcome_id = outcome_id
        /\ db.alert[i].status = "active"

\* Mutant: the cooldown is per instrument, whatever the outcome.
recent_alert_any_outcome(db, market_id, outcome_id) ==
    \E i \in DOMAIN db.alert :
        /\ db.alert[i].market_id = market_id
        /\ db.alert[i].ts >= cooldown_cutoff
        /\ db.alert[i].status = "active"

\* The query of the cooldown check: an active alert of the pair, created at or
\* after the cooldown cutoff.
recent_alert(db, market_id, outcome_id) ==
    \E i \in DOMAIN db.alert :
        /\ db.alert[i].market_id = market_id
        /\ db.alert[i].outcome_id = outcome_id
        /\ db.alert[i].ts >= cooldown_cutoff
        /\ db.alert[i].status = "active"

\* "if latest.volume and latest.volume < MIN_VOLUME_THRESHOLD"
below_volume_threshold(volume) ==
    Truthy(volume) /\ volume < MIN_VOLUME_THRESHOLD

\* Mutant: a zero prev_prob counts as the smallest positive probability, so the
\* relative change of any move away from 0 is huge.
DeltaPercentUnguarded(delta, prev_prob) ==
    IF prev_prob > 0 THEN <<delta * 100, prev_prob>> ELSE <<delta * 100, 1>>

\* delta / prev_prob * 100 as the rational <<numerator, denominator>>, 0 when
\* prev_prob is not positive.
DeltaPercent(delta, prev_prob) ==
    IF prev_prob > 0 THEN <<delta * 100, prev_prob>> ELSE <<0, 1>>

\* Mutant: the absolute threshold is one hundredth instead of five.
absolute_shift_low(delta) == Abs(delta) >= 1

absolute_shift(delta) == Abs(delta) >= ABSOLUTE_DELTA_THRESHOLD

\* abs(delta_percent) >= RELATIVE_DELTA_THRESHOLD * 100, with the threshold in
\* hundredths and delta_percent = q[1] / q[2].
relative_shift(q) == Abs(q[1]) >= RELATIVE_DELTA_THRESHOLD * q[2]

\* Mutant: the impact keeps the sign of delta.
OutcomeShiftSigned(db, market_id, outcome_id, snapshots) ==
    IF Len(snapshots) < 2 THEN <<>>
    ELSE LET latest == snapshots[1]
             previous == snapshots[Len(snapshots)]
             prev_prob == previous.prob
             new_prob == latest.prob
             delta == new_prob - prev_prob
             delta_percent == DeltaPercent(delta, prev_prob)
             volume == IF Truthy(latest.volume) THEN latest.volume ELSE 0
         IN IF recent_alert(db, market_id, outcome_id) THEN <<>>
            ELSE IF below_volume_threshold(latest.volume) THEN <<>>
            ELSE IF absolute_shift(delta) \/ relative_shift(delta_percent)
                 THEN << [market_id |-> market_id, outcome_id |-> outcome_id,
                          prev_prob |-> prev_prob, new_prob |-> new_prob,
                          delta |-> delta, delta_percent |-> delta_percent,
                          volume |-> volume,
                          volume_impact |-> delta * volume] >>
                 ELSE <<>>

\* Mutant: the newest snapshot is compared with the one just before it.
OutcomeShiftAdjacent(db, market_id, outcome_id, snapshots) ==
    IF Len(snapshots) < 2 THEN <<>>
    ELSE LET latest == snapshots[1]
             previous == snapshots[2]
             prev_prob == previous.prob
             new_prob == latest.prob
             delta == new_prob - prev_prob
             delta_percent == DeltaPercent(delta, prev_prob)
             volume == IF Truthy(latest.volume) THEN latest.volume ELSE 0
         IN IF recent_alert(db, market_id, outcome_id) THEN <<>>
            ELSE IF below_volume_threshold(latest.volume) THEN <<>>
            ELSE IF absolute_shift(delta) \/ relative_shift(delta_percent)
                 THEN << [market_id |-> market_id, outcome_id |-> outcome_id,
                          prev_prob |-> prev_prob, new_prob |-> new_prob,
                          delta |-> delta, delta_percent |-> delta_percent,
                          volume |-> volume,
                          volume_impact |-> Abs(delta) * volume] >>
                 ELSE <<>>

\* Mutant: both thresholds are needed ("and" in the place of "or").
OutcomeShiftBoth(db, market_id, outcome_id, snapshots) ==
    IF Len(snapshots) < 2 THEN <<>>
    ELSE LET latest == snapshots[1]
             previous == snapshots[Len(snapshots)]
             prev_prob == previous.prob
             new_prob == latest.prob
             delta == new_prob - prev_prob
             delta_percent == DeltaPercent(delta, prev_prob)
             volume == IF Truthy(latest.volume) THEN latest.volume ELSE 0
         IN IF recent_alert(db, market_id, outcome_id) THEN <<>>
            ELSE IF below_volume_threshold(latest.volume) THEN <<>>
            ELSE IF absolute_shift(delta) /\ relative_shift(delta_percent)
                 THEN << [market_id |-> market_id, outcome_id |-> outcome_id,
                          prev_prob |-> prev_prob, new_prob |-> new_prob,
                          delta |-> delta, delta_percent |-> delta_percent,
                          volume |-> volume,
                          volume_impact |-> Abs(delta) * volume] >>
                 ELSE <<>>

\* The body of the loop over outcome_snapshots for one outcome: the list of the
\* alerts to create for it (empty or one candidate).
OutcomeShift(db, market_id, outcome_id, snapshots) ==
    IF Len(snapshots) < 2 THEN <<>>
    ELSE LET latest == snapshots[1]
             previous == snapshots[Len(snapshots)]
             prev_prob == previous.prob
             new_prob == latest.prob
             delta == new_prob - prev_prob
             delta_percent == DeltaPercent(delta, prev_prob)
             volume == IF Truthy(latest.volume) THEN latest.volume ELSE 0
         IN IF recent_alert(db, market_id, outcome_id) THEN <<>>
            ELSE IF below_volume_threshold(latest.volume) THEN <<>>
            ELSE IF absolute_shift(delta) \/ relative_shift(delta_percent)
                 THEN << [market_id |-> market_id, outcome_id |-> outcome_id,
                          prev_prob |-> prev_prob, new_prob |-> new_prob,
                          delta |-> delta, delta_percent |-> delta_percent,
                          volume |-> volume,
                          volume_impact |-> Abs(delta) * volume] >>
                 ELSE <<>>

detect_shifts(db, market_id) ==
    IF market_id \notin db.tracked_market THEN <<>>
    ELSE LET recent == recent_snapshots(db, market_id)
             keys == OutcomeKeys(recent)
         IN IF Len(recent) < 2 THEN <<>>
            ELSE Concat([k \in 1 .. Len(keys) |->
                    OutcomeShift(db, market_id, keys[k],
                        SelectSeq(recent, LAMBDA s : s.outcome_id = keys[k]))])

\* One Alert row per candidate, status active, created now, then the commit.
RECURSIVE create_alerts(_, _)
create_alerts(db, alerts_data) ==
    IF alerts_data = <<>> THEN db
    ELSE LET alert_data == Head(alerts_data)
             row == [id |-> Len(db.alert) + 1,
                     market_id |-> alert_data.market_id,
                     outcome_id |-> alert_data.outcome_id,
                     prev_prob |-> alert_data.prev_prob,
                     new_prob |-> alert_data.new_prob,
                     delta |-> alert_data.delta,
                     delta_percent |-> alert_data.delta_percent,
                     volume |-> alert_data.volume,
                     volume_impact |-> alert_data.volume_impact,
                     ts |-> now, status |-> "active"]
         IN create_alerts([db EXCEPT !.alert = Append(db.alert, row)],
                          Tail(alerts_data))

(***************************************************************************)
(* The refresh pass: scheduler.py job_refresh_tracked_markets ("job") and  *)
(* main.py refresh_snapshots ("manual").  Both await                       *)
(* refresh_all_tracked_markets, which suspends once per market in          *)
(* fetch_market_data, and then run the detection loop without any await.   *)
(***************************************************************************)
\* db.query(TrackedMarket).all()
RECURSIVE AllMarkets(_)
AllMarkets(ids) ==
    IF ids = {} THEN <<>>
    ELSE LET m == CHOOSE x \in ids : \A y \in ids : x <= y
         IN <<m>> \o AllMarkets(ids \ {m})

\* for market in markets: shifts = detect_shifts(...); if shifts: create_alerts(...)
RECURSIVE DetectLoop(_, _)
DetectLoop(db, markets) ==
    IF markets = <<>> THEN db
    ELSE LET shifts == detect_shifts(db, Head(markets))
         IN DetectLoop(IF shifts # <<>> THEN create_alerts(db, shifts) ELSE db,
                       Tail(markets))

Idle == [pc |-> "idle", todo |-> <<>>]

\* code: the HTTP status; prior: the status the acknowledged alert had before.
NoReply == [code |-> 0, prior |-> "none"]

Commit(db) ==
    /\ tracked_market' = db.tracked_market
    /\ outcome' = db.outcome
    /\ snapshot' = db.snapshot
    /\ alert' = db.alert

\* The pass starts: it lists the tracked markets and suspends in the first fetch.
BeginPass(p) ==
    /\ pass[p].pc = "idle"
    /\ started < MaxPasses
    /\ started' = started + 1
    /\ LET markets == AllMarkets(tracked_market)
       IN IF markets = <<>>
          THEN pass' = pass /\ Commit(DetectLoop(DB, AllMarkets(tracked_market)))
          ELSE /\ pass' = [pass EXCEPT ![p] = [pc |-> "refresh", todo |-> markets]]
               /\ Commit(DB)
    /\ reply' = NoReply
    /\ UNCHANGED <<now, wsvars>>

\* What the store answers to the writes of one batch: they succeed, the
\* db.flush() after a new Outcome raises, or db.commit() raises in its flush.
StoreResults == {"ok", "flush_error", "commit_error"}

\* What datetime.utcnow() answers for each row of a batch: the clock is read once
\* per row, and after the first row it may have passed a tick boundary.
RowClock(rows, drift) == [i \in 1 .. Len(rows) |-> IF i = 1 THEN now ELSE now + drift]

\* The rows create_snapshot_for_market gets to write, none when it returns or
\* raises before its loop.
BatchRows(db, market_id, response) ==
    IF market_id \notin db.tracked_market THEN <<>>
    ELSE IF response.status # "ok" THEN <<>>
    ELSE IF DOMAIN response.json = DOMAIN EmptyResponse THEN <<>>
    ELSE IF ExtractRaises(response.json) THEN <<>>
    ELSE extract_snapshot_data(response.json)

\* db.flush() is called only after adding a new Outcome: a flush error needs a
\* batch that creates one.  It leaves the session's transaction rolled back and
\* inactive, and every later statement on the session raises.
FlushRaises(db, market_id, response, store) ==
    LET rows == BatchRows(db, market_id, response)
    IN /\ store = "flush_error"
       /\ Len(WriteRows(db, market_id, rows).outcome) > Len(db.outcome)

\* db.commit() raises while flushing the batch: the session rolls the
\* transaction back and stays usable.
CommitRaises(db, market_id, response, store) ==
    /\ store = "commit_error"
    /\ BatchRows(db, market_id, response) # <<>>

\* Mutant: a flush error keeps the rows added before it, here the first one.
StoreBatchPartial(db, market_id, response, store, drift) ==
    LET rows == BatchRows(db, market_id, response)
    IN IF FlushRaises(db, market_id, response, store)
       THEN WriteRows(db, market_id, SubSeq(rows, 1, 1))
       ELSE IF CommitRaises(db, market_id, response, store) THEN db
       ELSE WriteRowsAt(db, market_id, rows, RowClock(rows, drift))

\* The tables after create_snapshot_for_market: with the batch, or as they were
\* when the call returned early, raised, or its transaction was rolled back.
StoreBatch(db, market_id, response, store, drift) ==
    IF FlushRaises(db, market_id, response, store) THEN db
    ELSE IF CommitRaises(db, market_id, response, store) THEN db
    ELSE IF drift = 0 THEN create_snapshot_for_market(db, market_id, response)
    ELSE LET rows == BatchRows(db, market_id, response)
         IN WriteRowsAt(db, market_id, rows, RowClock(rows, drift))

\* What a pass answers when it ends: the manual refresh is an HTTP request
\* (200, or 500 when an exception leaves the handler), the job is none.
PassReply(p, code) ==
    IF p = "manual" THEN [code |-> code, prior |-> "none"] ELSE NoReply

\* The pass resumes with the answer of the fetch it was suspended in and writes
\* the market's batch.  It then suspends in the next market's fetch or, after
\* the last market, runs the detection loop over all tracked markets and ends.
\* After a flush error the queries of the remaining markets and of the
\* detection loop all raise on the broken session, without any await: the pass
\* ends in this step, with no further batch and no detection.
Ingest(p, response, store, drift) ==
    /\ pass[p].pc = "refresh"
    /\ LET market_id == Head(pass[p].todo)
           db == StoreBatch(DB, market_id, response, store, drift)
           rest == Tail(pass[p].todo)
       IN /\ drift # 0 => /\ Len(db.snapshot) >= Len(snapshot) + 2
                          /\ rest # <<>>
          /\ IF FlushRaises(DB, market_id, response, store)
             THEN /\ pass' = [pass EXCEPT ![p] = Idle]
                  /\ Commit(db)
                  /\ reply' = PassReply(p, 500)
             ELSE IF rest # <<>>
             THEN /\ pass' = [pass EXCEPT ![p].todo = rest]
                  /\ Commit(db)
                  /\ reply' = NoReply
             ELSE /\ pass' = [pass EXCEPT ![p] = Idle]
                  /\ Commit(DetectLoop(db, AllMarkets(db.tracked_market)))
                  /\ reply' = PassReply(p, 200)
    /\ now' = now + drift
    /\ UNCHANGED <<started, wsvars>>

\* The pass step when the store accepts every write and the clock passes no tick
\* boundary during the batch.
PassStep(p, events) ==
    /\ pass[p].pc = "refresh"
    /\ \E response \in FetchResults(events) : Ingest(p, response, "ok", 0)

(***************************************************************************)
(* main.py acknowledge_alert                                               *)
(***************************************************************************)
\* Mutant: first() without the filter on the id.
QueryAlertUnfiltered(db, alert_id) == IF db.alert # <<>> THEN 1 ELSE 0

\* db.query(Alert).filter(Alert.id == alert_id).first(): the row's index, 0 for None.
QueryAlert(db, alert_id) ==
    IF \E i \in DOMAIN db.alert : db.alert[i].id = alert_id
    THEN CHOOSE i \in DOMAIN db.alert : db.alert[i].id = alert_id
    ELSE 0

\* Mutant: acknowledging toggles the status.
AcknowledgedToggle(a) ==
    [a EXCEPT !.status = IF a.status = "active" THEN "acknowledged" ELSE "active"]

\* Mutant: acknowledging also stamps the row with the current time.
AcknowledgedTouch(a) == [a EXCEPT !.status = "acknowledged", !.ts = now]

\* alert.status = "acknowledged"
Acknowledged(a) == [a EXCEPT !.status = "acknowledged"]

acknowledge_alert(alert_id) ==
    LET i == QueryAlert(DB, alert_id)
    IN /\ IF i = 0
          THEN /\ alert' = alert
               /\ reply' = [code |-> 404, prior |-> "none"]
          ELSE /\ alert' = [alert EXCEPT ![i] = Acknowledged(alert[i])]
               /\ reply' = [code |-> 200, prior |-> alert[i].status]
       /\ UNCHANGED <<now, tracked_market, outcome, snapshot, pass, started, wsvars>>

(***************************************************************************)
(* scheduler.py job_cleanup_old_data: deletes rows of price_snapshot, trade *)
(* and order_book_snapshot only; none of the four tables above.            *)
(***************************************************************************)
job_cleanup_old_data ==
    /\ reply' = NoReply
    /\ UNCHANGED <<now, tracked_market, outcome, snapshot, alert, pass, started, wsvars>>

\* A quarter of an hour passes.
Tick(end) ==
    /\ now < end
    /\ now' = now + 1
    /\ reply' = NoReply
    /\ UNCHANGED <<tracked_market, outcome, snapshot, alert, pass, started, wsvars>>

Init ==
    /\ now = 0
    /\ tracked_market = Markets
    /\ outcome = <<>>
    /\ snapshot = <<>>
    /\ alert = <<>>
    /\ pass = [p \in Passes |-> Idle]
    /\ started = 0
    /\ reply = NoReply
    /\ active_connections = <<>>
    /\ connection_markets = <<>>
    /\ broadcast_tasks = <<>>
    /\ tasks = <<>>
    /\ sock = [ws \in Sockets |-> NoSocket]

\* The detector fed by the scheduled job alone, over all market states.
Next ==
    \/ BeginPass("job")
    \/ PassStep("job", MarketStates(Head(pass["job"].todo)))
    \/ Tick(MaxTime)

Spec == Init /\ [][Next]_vars

\* The alert ledger: the scheduled job and the manual refresh interleaved,
\* acknowledgements and the cleanup job, over the two market states of a shift.
ShiftStates(m) == {Event(m, 20, 80, 1000), Event(m, 40, 60, 500)}

NextLedger ==
    \/ \E p \in Passes : BeginPass(p)
    \/ \E p \in Passes : PassStep(p, ShiftStates(Head(pass[p].todo)))
    \/ \E alert_id \in 1 .. Len(alert) + 1 : acknowledge_alert(alert_id)
    \/ job_cleanup_old_data
    \/ Tick(MaxLedgerTime)

SpecLedger == Init /\ [][NextLedger]_vars

\* The detector over market states with a zero price: an outcome at probability
\* 0, then at 0.03 or at 0.40.
ZeroStates(m) == {Event(m, 0, 100, 500), Event(m, 3, 97, 500), Event(m, 40, 60, 500)}

NextZero ==
    \/ BeginPass("job")
    \/ PassStep("job", ZeroStates(Head(pass["job"].todo)))
    \/ Tick(MaxTime)

SpecZero == Init /\ [][NextZero]_vars

\* Ingestion over the shapes of a fetched market state: plain events, an event
\* of two sub-markets, prices all zero or absent, and events whose first
\* outcome is malformed (no token identifier, a price that is no number, no
\* JSON object) next to a well-formed second outcome.
SubMarketsEvent(m) ==
    [markets |-> << [outcomes |-> << [id |-> m * 10 + 1, name |-> "Yes", price |-> 20],
                                     [id |-> m * 10 + 2, name |-> "No", price |-> 80] >>],
                    [outcomes |-> << [id |-> m * 10 + 3, name |-> "Yes", price |-> 30],
                                     [id |-> m * 10 + 4, name |-> "No", price |-> 70] >>] >>,
     volume |-> 1000]

NoPricesEvent(m) ==
    [outcomes |-> << [id |-> m * 10 + 1, name |-> "Yes"],
                     [id |-> m * 10 + 2, name |-> "No"] >>,
     volume |-> 500]

NoIdEvent(m) ==
    [outcomes |-> << [name |-> "Yes", price |-> 20],
                     [id |-> m * 10 + 2, name |-> "No", price |-> 80] >>,
     volume |-> 1000]

TextPriceEvent(m) ==
    [outcomes |-> << [id |-> m * 10 + 1, name |-> "Yes", price_text |-> "n/a"],
                     [id |-> m * 10 + 2, name |-> "No", price |-> 80] >>,
     volume |-> 1000]

NotADictEvent(m) ==
    [outcomes |-> << [not_a_dict |-> "text"],
                     [id |-> m * 10 + 2, name |-> "No", price |-> 80] >>,
     volume |-> 1000]

FeedStates(m) ==
    { Event(m, 20, 80, 1000), Event(m, 40, 60, 500), Event(m, 0, 0, 500),
      NoPricesEvent(m), SubMarketsEvent(m),
      NoIdEvent(m), TextPriceEvent(m), NotADictEvent(m) }

NextFeed ==
    \/ BeginPass("job")
    \/ PassStep("job", FeedStates(Head(pass["job"].todo)))
    \/ Tick(MaxLedgerTime)

SpecFeed == Init /\ [][NextFeed]_vars

\* Ingestion of two tracked markets by the job and the manual refresh, each on
\* its own session, with a store that can fail.  The clock moves by the tick
\* boundaries it passes while a batch is written.
IngestMarkets == {1, 2}

InitIngest ==
    /\ now = 0
    /\ tracked_market = IngestMarkets
    /\ outcome = <<>>
    /\ snapshot = <<>>
    /\ alert = <<>>
    /\ pass = [p \in Passes |-> Idle]
    /\ started = 0
    /\ reply = NoReply
    /\ active_connections = <<>>
    /\ connection_markets = <<>>
    /\ broadcast_tasks = <<>>
    /\ tasks = <<>>
    /\ sock = [ws \in Sockets |-> NoSocket]

IngestStep(p, events) ==
    /\ pass[p].pc = "refresh"
    /\ \E response \in FetchResults(events), store \in StoreResults, drift \in {0, 1} :
          /\ now + drift <= MaxLedgerTime
          /\ Ingest(p, response, store, drift)

NextIngest ==
    \/ \E p \in Passes : started < MaxIngestPasses /\ BeginPass(p)
    \/ \E p \in Passes : IngestStep(p, ShiftStates(Head(pass[p].todo)))

SpecIngest == InitIngest /\ [][NextIngest]_vars

\* The detector over market states that move one outcome by one threshold
\* alone: Yes 0.17 to 0.21 is 4 hundredths and 23.5 percent, No 0.83 to 0.88 is
\* 5 hundredths and 6 percent.  One state carries no volume, one a low volume.
TriggerStates(m) ==
    { Event(m, 17, 83, 1000), Event(m, 21, 79, None), Event(m, 21, 79, 50),
      Event(m, 12, 88, 1000) }

NextTrigger ==
    \/ BeginPass("job")
    \/ PassStep("job", TriggerStates(Head(pass["job"].todo)))
    \/ Tick(MaxTime)

SpecTrigger == Init /\ [][NextTrigger]_vars

\* The detector over a move from 0.30 to 0.40 at volume 500, at another volume
\* and without volume.
ImpactStates(m) ==
    { Event(m, 30, 70, 500), Event(m, 40, 60, 500),
      Event(m, 40, 60, 1000), Event(m, 40, 60, None) }

NextImpact ==
    \/ BeginPass("job")
    \/ PassStep("job", ImpactStates(Head(pass["job"].todo)))
    \/ Tick(MaxLedgerTime)

SpecImpact == Init /\ [][NextImpact]_vars

\* The detection loop of a pass when detect_shifts or create_alerts raises for
\* the markets in raising (a store error in their queries or their commit):
\* the loop has no try of its own, so the exception leaves it at the first such
\* market; the alerts of the markets before it are committed already.
RECURSIVE DetectLoopRaising(_, _, _)
DetectLoopRaising(db, markets, raising) ==
    IF markets = <<>> THEN db
    ELSE IF Head(markets) \in raising THEN db
    ELSE LET shifts == detect_shifts(db, Head(markets))
         IN DetectLoopRaising(IF shifts # <<>> THEN create_alerts(db, shifts) ELSE db,
                              Tail(markets), raising)

\* One step of a pass whose detection may raise: the fetch of the next market
\* answers and its batch is written; after the last market the detection loop
\* runs.  The job logs an exception of the loop, the manual refresh answers 500.
IngestDetect(p, response, raising) ==
    /\ pass[p].pc = "refresh"
    /\ LET market_id == Head(pass[p].todo)
           db == create_snapshot_for_market(DB, market_id, response)
           rest == Tail(pass[p].todo)
       IN IF rest # <<>>
          THEN /\ pass' = [pass EXCEPT ![p].todo = rest]
               /\ Commit(db)
               /\ reply' = NoReply
          ELSE /\ pass' = [pass EXCEPT ![p] = Idle]
               /\ Commit(DetectLoopRaising(db, AllMarkets(db.tracked_market), raising))
               /\ reply' = PassReply(p, IF raising \cap db.tracked_market # {}
                                        THEN 500 ELSE 200)
    /\ UNCHANGED <<now, started, wsvars>>

\* At most one market's detection raises in a pass.
RaisingSets == {{}} \cup {{m} : m \in IngestMarkets}

NextDetect ==
    \/ \E p \in Passes : started < MaxIngestPasses /\ BeginPass(p)
    \/ \E p \in Passes :
          /\ pass[p].pc = "refresh"
          /\ \E response \in FetchResults(ShiftStates(Head(pass[p].todo))),
                raising \in RaisingSets : IngestDetect(p, response, raising)

SpecDetect == InitIngest /\ [][NextDetect]_vars

(***************************************************************************)
(* scheduler.py job_fetch_price_snapshots, next to the refresh passes.     *)
(* All jobs and requests run on one event loop, each with its own session  *)
(* and connection to the SQLite file.  The job's db.flush() of a new       *)
(* Outcome opens a write transaction that stays open over the awaits of    *)
(* the following outcomes, until the db.commit() of the market; until then *)
(* its rows are invisible to the other sessions, and the write of any      *)
(* other session fails with "database is locked" (the wait for the lock    *)
(* blocks the event loop, so the job cannot commit in the meantime).       *)
(***************************************************************************)
\* The job's entry in pass: the markets still to do, the outcomes of the
\* market still to fetch, and the Outcome rows flushed and not yet committed.
PriceIdle == [pc |-> "idle", todo |-> <<>>, tokens |-> <<>>, added |-> <<>>]

\* What fetch_price_history gives for one token: a point, nothing, or an
\* exception (httpx.RequestError is not caught there).
HistoryResults == {"point", "empty", "error"}

\* extract_outcomes_from_event, legacy format, without the outcomes the job
\* skips ("if not token_id: continue").
extract_outcomes_from_event(event) ==
    LET outcomes == IF "outcomes" \in DOMAIN event THEN event.outcomes ELSE <<>>
        ids == [i \in DOMAIN outcomes |->
                   [id |-> IF Truthy(Get(outcomes[i], "id")) THEN outcomes[i].id
                           ELSE Get(outcomes[i], "outcome_id"),
                    name |-> IF "title" \in DOMAIN outcomes[i] THEN outcomes[i].title
                             ELSE Get(outcomes[i], "name")]]
    IN SelectSeq(ids, LAMBDA o : Truthy(o.id))

\* The job goes on with its next market, or ends.
PriceNextMarket(job) ==
    IF Tail(job.todo) = <<>> THEN PriceIdle
    ELSE [pc |-> "market", todo |-> Tail(job.todo), tokens |-> <<>>, added |-> <<>>]

\* The job starts: it lists the tracked markets and suspends in the first
\* fetch_market_details.
BeginPrice ==
    /\ pass["price"].pc = "idle"
    /\ started < MaxPasses
    /\ started' = started + 1
    /\ LET markets == AllMarkets(tracked_market)
       IN pass' = IF markets = <<>> THEN pass
                  ELSE [pass EXCEPT !["price"] =
                           [pc |-> "market", todo |-> markets,
                            tokens |-> <<>>, added |-> <<>>]]
    /\ reply' = NoReply
    /\ UNCHANGED <<now, tracked_market, outcome, snapshot, alert, wsvars>>

\* fetch_market_details answers: without data the job goes to the next market,
\* with data it suspends in the fetch_price_history of the first outcome.
PriceFetched(response) ==
    /\ pass["price"].pc = "market"
    /\ LET job == pass["price"]
           tokens == IF response.status = "ok"
                        /\ DOMAIN response.json # DOMAIN EmptyResponse
                     THEN extract_outcomes_from_event(response.json) ELSE <<>>
       IN pass' = [pass EXCEPT !["price"] =
                      IF tokens = <<>> THEN PriceNextMarket(job)
                      ELSE [job EXCEPT !.pc = "history", !.tokens = tokens]]
    /\ reply' = NoReply
    /\ UNCHANGED <<now, tracked_market, outcome, snapshot, alert, started, wsvars>>

\* fetch_price_history answers for one outcome.  With a point the job finds
\* the Outcome of the token or adds and flushes it; after the last outcome of
\* the market it commits.  An exception rolls the market's rows back.
PriceHistory(history) ==
    /\ pass["price"].pc = "history"
    /\ LET job == pass["price"]
           market_id == Head(job.todo)
           token == Head(job.tokens)
           rows == outcome \o job.added
           known == \E i \in DOMAIN rows :
                       /\ rows[i].market_id = market_id
                       /\ rows[i].outcome_id = token.id
           added == IF history = "point" /\ ~known
                    THEN Append(job.added,
                                [id |-> Len(rows) + 1, market_id |-> market_id,
                                 outcome_id |-> token.id, name |-> token.name])
                    ELSE job.added
       IN IF history = "error"
          THEN /\ pass' = [pass EXCEPT !["price"] = PriceNextMarket(job)]
               /\ outcome' = outcome
          ELSE IF Tail(job.tokens) = <<>>
          THEN /\ pass' = [pass EXCEPT !["price"] = PriceNextMarket(job)]
               /\ outcome' = outcome \o added
          ELSE /\ pass' = [pass EXCEPT !["price"] =
                              [job EXCEPT !.tokens = Tail(job.tokens), !.added = added]]
               /\ outcome' = outcome
    /\ reply' = NoReply
    /\ UNCHANGED <<now, tracked_market, snapshot, alert, started, wsvars>>

\* Mutant: the writes of a refresh pass succeed whatever the job holds.
LockedStoreFree(db, market_id, response) == "ok"

\* What the store answers to the writes of a refresh batch: "database is
\* locked" while the job holds its write transaction, at the flush of a new
\* Outcome or else at the commit.
LockedStore(db, market_id, response) ==
    IF pass["price"].added = <<>> THEN "ok"
    ELSE IF FlushRaises(db, market_id, response, "flush_error") THEN "flush_error"
    ELSE "commit_error"

\* One step of a refresh pass next to the job.  While the job holds its write
\* transaction the commit of create_alerts fails too.
PriceIngest(p, response) ==
    /\ pass[p].pc = "refresh"
    /\ LET market_id == Head(pass[p].todo)
           store == LockedStore(DB, market_id, response)
           db == StoreBatch(DB, market_id, response, store, 0)
           rest == Tail(pass[p].todo)
           markets == AllMarkets(db.tracked_market)
       IN IF FlushRaises(DB, market_id, response, store)
          THEN /\ pass' = [pass EXCEPT ![p] = Idle]
               /\ Commit(db)
               /\ reply' = PassReply(p, 500)
          ELSE IF rest # <<>>
          THEN /\ pass' = [pass EXCEPT ![p].todo = rest]
               /\ Commit(db)
               /\ reply' = NoReply
          ELSE /\ pass' = [pass EXCEPT ![p] = Idle]
               /\ Commit(IF pass["price"].added = <<>> THEN DetectLoop(db, markets)
                         ELSE DetectLoopRaising(db, markets, db.tracked_market))
               /\ reply' = PassReply(p, 200)
    /\ UNCHANGED <<now, started, wsvars>>

InitPrice ==
    /\ now = 0
    /\ tracked_market = Markets
    /\ outcome = <<>>
    /\ snapshot = <<>>
    /\ alert = <<>>
    /\ pass = [p \in Passes \cup {"price"} |-> IF p = "price" THEN PriceIdle ELSE Idle]
    /\ started = 0
    /\ reply = NoReply
    /\ active_connections = <<>>
    /\ connection_markets = <<>>
    /\ broadcast_tasks = <<>>
    /\ tasks = <<>>
    /\ sock = [ws \in Sockets |-> NoSocket]

NextPrice ==
    \/ \E p \in Passes : BeginPass(p)
    \/ \E p \in Passes :
          /\ pass[p].pc = "refresh"
          /\ \E response \in FetchResults(ShiftStates(Head(pass[p].todo))) :
                PriceIngest(p, response)
    \/ BeginPrice
    \/ /\ pass["price"].pc = "market"
       /\ \E response \in FetchResults(ShiftStates(Head(pass["price"].todo))) :
             PriceFetched(response)
    \/ \E history \in HistoryResults : PriceHistory(history)

SpecPrice == InitPrice /\ [][NextPrice]_vars

(***************************************************************************)
(* main.py delete_tracked_market and the ORM cascades of database.py.      *)
(***************************************************************************)
\* The rows session.delete(market) removes with the market: the relationships
\* TrackedMarket.outcomes, TrackedMarket.snapshots and Outcome.snapshots carry
\* cascade="all, delete-orphan"; Alert.market carries no cascade, and SQLite
\* does not enforce the foreign key of alert.market_id.
Cascade(db, market_id) ==
    LET gone == {i \in DOMAIN db.outcome : db.outcome[i].market_id = market_id}
        OutcomeStays(row) == row.market_id # market_id
        SnapshotStays(row) == row.market_id # market_id /\ row.outcome_id \notin gone
    IN [db EXCEPT !.tracked_market = db.tracked_market \ {market_id},
                  !.outcome = SelectSeq(db.outcome, OutcomeStays),
                  !.snapshot = SelectSeq(db.snapshot, SnapshotStays)]

\* DELETE /api/tracked-markets/{market_id}.  The models below track one
\* market, so that the rows that stay keep their place (their id).
delete_tracked_market(market_id) ==
    /\ IF market_id \notin tracked_market
       THEN /\ Commit(DB)
            /\ reply' = [code |-> 404, prior |-> "none"]
       ELSE /\ Commit(Cascade(DB, market_id))
            /\ reply' = [code |-> 200, prior |-> "none"]
    /\ UNCHANGED <<now, pass, started, wsvars>>

\* The market ids a client can ask to delete; 2 is never tracked.
DeleteIds == {1, 2}

\* The scheduled job over the two market states of a shift, and deletions.
NextDelete ==
    \/ BeginPass("job")
    \/ PassStep("job", ShiftStates(Head(pass["job"].todo)))
    \/ \E market_id \in DeleteIds : delete_tracked_market(market_id)
    \/ Tick(MaxLedgerTime)

SpecDelete == Init /\ [][NextDelete]_vars

(***************************************************************************)
(* services/websocket_service.py: the ConnectionManager registry, the       *)
(* websocket endpoint and the broadcast loop.  Everything runs on one       *)
(* asyncio event loop: an action is the code a task runs between two of its *)
(* awaits.                                                                  *)
(***************************************************************************)
\* dict[k] = v and dict.pop(k, None)
DictSet(d, k, v) == [x \in DOMAIN d \cup {k} |-> IF x = k THEN v ELSE d[x]]
DictPop(d, k) == [x \in DOMAIN d \ {k} |-> d[x]]

\* The manager's three dictionaries and the tasks, as one value.
Manager == [active_connections |-> active_connections,
            connection_markets |-> connection_markets,
            broadcast_tasks |-> broadcast_tasks,
            tasks |-> tasks]

SetManager(mg) ==
    /\ active_connections' = mg.active_connections
    /\ connection_markets' = mg.connection_markets
    /\ broadcast_tasks' = mg.broadcast_tasks
    /\ tasks' = mg.tasks

\* asyncio.create_task(self._broadcast_loop(market_id)): the task is scheduled
\* and has not run yet.
NewTask(market_id) ==
    [market_id |-> market_id, pc |-> "created", must_cancel |-> FALSE,
     cancelled |-> FALSE, sending |-> 0, pending |-> {}, disconnected |-> {}]

\* task.cancel(): nothing for a finished task; otherwise CancelledError is
\* thrown into the task at the await it is (or next gets) suspended in.
Cancel(task) ==
    IF task.pc = "done" THEN task
    ELSE [task EXCEPT !.must_cancel = TRUE, !.cancelled = TRUE]

\* ConnectionManager.connect after "await websocket.accept()".
connect(mg, websocket, market_id) ==
    LET conns == IF market_id \in DOMAIN mg.active_connections
                 THEN mg.active_connections[market_id] ELSE {}
        registered ==
            [mg EXCEPT !.active_connections =
                           DictSet(mg.active_connections, market_id,
                                   conns \cup {websocket}),
                       !.connection_markets =
                           DictSet(mg.connection_markets, websocket, market_id)]
    IN IF market_id \in DOMAIN mg.broadcast_tasks THEN registered
       ELSE [registered EXCEPT
                !.tasks = Append(mg.tasks, NewTask(market_id)),
                !.broadcast_tasks =
                    DictSet(mg.broadcast_tasks, market_id, Len(mg.tasks) + 1)]

\* Mutant: the last subscriber's disconnect cancels the task and leaves its
\* entry in broadcast_tasks.
disconnect_keeps_entry(mg, websocket) ==
    LET market_id == Get(mg.connection_markets, websocket)
    IN IF ~Truthy(market_id) THEN mg
       ELSE LET left == mg.active_connections[market_id] \ {websocket}
                removed ==
                    [mg EXCEPT !.active_connections[market_id] = left,
                               !.connection_markets =
                                   DictPop(mg.connection_markets, websocket)]
            IN IF left # {} THEN removed
               ELSE LET task == Get(mg.broadcast_tasks, market_id)
                        popped ==
                            [removed EXCEPT
                                !.active_connections =
                                    DictPop(removed.active_connections, market_id)]
                    IN IF task = None THEN popped
                       ELSE [popped EXCEPT !.tasks[task] = Cancel(mg.tasks[task])]

\* ConnectionManager.disconnect.  "if market_id:" is false for None and for 0.
disconnect(mg, websocket) ==
    LET market_id == Get(mg.connection_markets, websocket)
    IN IF ~Truthy(market_id) THEN mg
       ELSE LET left == mg.active_connections[market_id] \ {websocket}
                removed ==
                    [mg EXCEPT !.active_connections[market_id] = left,
                               !.connection_markets =
                                   DictPop(mg.connection_markets, websocket)]
            IN IF left # {} THEN removed
               ELSE LET task == Get(mg.broadcast_tasks, market_id)
                        popped ==
                            [removed EXCEPT
                                !.broadcast_tasks =
                                    DictPop(mg.broadcast_tasks, market_id),
                                !.active_connections =
                                    DictPop(removed.active_connections, market_id)]
                    IN IF task = None THEN popped
                       ELSE [popped EXCEPT !.tasks[task] = Cancel(mg.tasks[task])]

\* "for conn in disconnected: self.disconnect(conn)"
RECURSIVE DisconnectAll(_, _)
DisconnectAll(mg, conns) ==
    IF conns = {} THEN mg
    ELSE LET c == CHOOSE x \in conns : \A y \in conns : x <= y
         IN DisconnectAll(disconnect(mg, c), conns \ {c})

(***************************************************************************)
(* websocket_endpoint, one handler per websocket.                          *)
(***************************************************************************)
\* A client opens /ws/market/{market_id}; the handler suspends in accept().
WsRequest(ws, market_id) ==
    /\ sock[ws].state = "none"
    /\ sock' = [sock EXCEPT ![ws] = [state |-> "accepting", market_id |-> market_id]]
    /\ UNCHANGED <<active_connections, connection_markets, broadcast_tasks, tasks, dbvars>>

\* accept() returns and connect registers the websocket.
WsAccepted(ws) ==
    /\ sock[ws].state = "accepting"
    /\ sock' = [sock EXCEPT ![ws].state = "open"]
    /\ SetManager(connect(Manager, ws, sock[ws].market_id))
    /\ UNCHANGED dbvars

\* accept() raises: connect registers nothing and the handler ends.
WsAcceptFails(ws) ==
    /\ sock[ws].state = "accepting"
    /\ sock' = [sock EXCEPT ![ws].state = "closed"]
    /\ UNCHANGED <<active_connections, connection_markets, broadcast_tasks, tasks, dbvars>>

\* The pong of send_personal_message fails: it disconnects the websocket, and
\* the handler goes on receiving.
WsPongFails(ws) ==
    /\ sock[ws].state = "open"
    /\ SetManager(disconnect(Manager, ws))
    /\ UNCHANGED <<sock, dbvars>>

\* receive_text() raises WebSocketDisconnect (or another exception): the handler
\* disconnects the websocket and ends.
WsDisconnect(ws) ==
    /\ sock[ws].state = "open"
    /\ sock' = [sock EXCEPT ![ws].state = "closed"]
    /\ SetManager(disconnect(Manager, ws))
    /\ UNCHANGED dbvars

(***************************************************************************)
(* ConnectionManager._broadcast_loop, one asyncio task per create_task.    *)
(* pc names the await the task is suspended in.                            *)
(***************************************************************************)
Finished(task) ==
    [task EXCEPT !.pc = "done", !.must_cancel = FALSE,
                 !.sending = 0, !.pending = {}, !.disconnected = {}]

\* "while market_id in self.active_connections": suspend in the next fetch of
\* the market, or leave the loop.
WhileCheck(mg, t) ==
    IF mg.tasks[t].market_id \in DOMAIN mg.active_connections
    THEN [mg EXCEPT !.tasks[t].pc = "fetch"]
    ELSE [mg EXCEPT !.tasks[t] = Finished(mg.tasks[t])]

\* The task runs for the first time: without a tracked market it returns.
LoopStart(t) ==
    /\ tasks[t].pc = "created"
    /\ ~tasks[t].must_cancel
    /\ IF tasks[t].market_id \in tracked_market
       THEN SetManager(WhileCheck(Manager, t))
       ELSE SetManager([Manager EXCEPT !.tasks[t] = Finished(tasks[t])])
    /\ UNCHANGED <<sock, dbvars>>

\* CancelledError reaches the task where no handler swallows it: before its
\* first run, in fetch_market_details, in the primary trades request, in
\* send_json, or in either sleep.  The loop breaks (or the error leaves the
\* except handler) and the task ends.
LoopCancelled(t) ==
    /\ tasks[t].must_cancel
    /\ tasks[t].pc \in {"created", "fetch", "trades", "send", "sleep", "sleep_exc"}
    /\ tasks' = [tasks EXCEPT ![t] = Finished(tasks[t])]
    /\ UNCHANGED <<active_connections, connection_markets, broadcast_tasks, sock, dbvars>>

\* The loop as it would be if a fetch without data ended it.
LoopFetchedOrEnds(t) ==
    /\ tasks[t].pc = "fetch"
    /\ ~tasks[t].must_cancel
    /\ \E got_data \in BOOLEAN :
          tasks' = [tasks EXCEPT ![t] = IF got_data THEN [@ EXCEPT !.pc = "trades"]
                                        ELSE Finished(@)]
    /\ UNCHANGED <<active_connections, connection_markets, broadcast_tasks, sock, dbvars>>

\* fetch_market_details answers: no data leads to the sleep, data to the
\* trades requests of fetch_market_trades_by_market.
LoopFetched(t) ==
    /\ tasks[t].pc = "fetch"
    /\ ~tasks[t].must_cancel
    /\ \E got_data \in BOOLEAN :
          tasks' = [tasks EXCEPT ![t].pc = IF got_data THEN "trades" ELSE "sleep"]
    /\ UNCHANGED <<active_connections, connection_markets, broadcast_tasks, sock, dbvars>>

\* broadcast_to_market begins: it copies the subscriber set and suspends in the
\* first send_json, or returns at once to the sleep when the set is empty.
BeginBroadcast(mg, t) ==
    LET market_id == mg.tasks[t].market_id
        connections == IF market_id \in DOMAIN mg.active_connections
                       THEN mg.active_connections[market_id] ELSE {}
    IN IF connections = {} THEN {[mg EXCEPT !.tasks[t].pc = "sleep"]}
       ELSE {[mg EXCEPT !.tasks[t].pc = "send",
                        !.tasks[t].sending = c,
                        !.tasks[t].pending = connections \ {c},
                        !.tasks[t].disconnected = {}] : c \in connections}

\* After the trades of one outcome: the request for the next outcome, or the
\* broadcast.
AfterTrades(mg, t) ==
    {[mg EXCEPT !.tasks[t].pc = "trades"]} \cup BeginBroadcast(mg, t)

\* The primary trades request answers: the trades (or [] on a network error),
\* 404 and the alternative request of _fetch_trades_alternative, or another
\* HTTP error, which is re-raised into the loop's "except Exception" and its
\* sleep.
LoopTrades(t) ==
    /\ tasks[t].pc = "trades"
    /\ ~tasks[t].must_cancel
    /\ \/ \E mg \in AfterTrades(Manager, t) : SetManager(mg)
       \/ SetManager([Manager EXCEPT !.tasks[t].pc = "trades_alt"])
       \/ SetManager([Manager EXCEPT !.tasks[t].pc = "sleep_exc"])
    /\ UNCHANGED <<sock, dbvars>>

\* The alternative trades request answers, or CancelledError reaches the task
\* in it: the bare "except:" of _fetch_trades_alternative catches the error
\* and returns [], and the loop goes on.
LoopTradesAlternative(t) ==
    /\ tasks[t].pc = "trades_alt"
    /\ \E mg \in AfterTrades([Manager EXCEPT !.tasks[t].must_cancel = FALSE], t) :
          SetManager(mg)
    /\ UNCHANGED <<sock, dbvars>>

\* send_json to the connection answers or raises.  After the last connection
\* the failed ones are disconnected and the loop suspends in its sleep.
LoopSentResult(t, ok) ==
    /\ tasks[t].pc = "send"
    /\ ~tasks[t].must_cancel
    /\ ok => sock[tasks[t].sending].state = "open"
    /\ LET failed == IF ok THEN tasks[t].disconnected
                     ELSE tasks[t].disconnected \cup {tasks[t].sending}
       IN IF tasks[t].pending # {}
          THEN \E c \in tasks[t].pending :
                  SetManager([Manager EXCEPT
                                 !.tasks[t].sending = c,
                                 !.tasks[t].pending = tasks[t].pending \ {c},
                                 !.tasks[t].disconnected = failed])
          ELSE SetManager(DisconnectAll(
                  [Manager EXCEPT !.tasks[t].pc = "sleep",
                                  !.tasks[t].sending = 0,
                                  !.tasks[t].disconnected = {}],
                  failed))
    /\ UNCHANGED <<sock, dbvars>>

LoopSent(t) == \E ok \in BOOLEAN : LoopSentResult(t, ok)

\* asyncio.sleep(5) ends, in the loop body or in its "except Exception".
LoopSlept(t) ==
    /\ tasks[t].pc \in {"sleep", "sleep_exc"}
    /\ ~tasks[t].must_cancel
    /\ SetManager(WhileCheck(Manager, t))
    /\ UNCHANGED <<sock, dbvars>>

NextWS ==
    \/ \E ws \in Sockets, market_id \in WsMarketIds : WsRequest(ws, market_id)
    \/ \E ws \in Sockets : WsAccepted(ws)
    \/ \E ws \in Sockets : WsAcceptFails(ws)
    \/ \E ws \in Sockets : WsPongFails(ws)
    \/ \E ws \in Sockets : WsDisconnect(ws)
    \/ \E t \in DOMAIN tasks : LoopStart(t)
    \/ \E t \in DOMAIN tasks : LoopCancelled(t)
    \/ \E t \in DOMAIN tasks : LoopFetched(t)
    \/ \E t \in DOMAIN tasks : LoopTrades(t)
    \/ \E t \in DOMAIN tasks : LoopTradesAlternative(t)
    \/ \E t \in DOMAIN tasks : LoopSent(t)
    \/ \E t \in DOMAIN tasks : LoopSlept(t)

SpecWS == Init /\ [][NextWS]_vars

(***************************************************************************)
(* Properties of the shift detector (checked under Spec).  A refresh pass  *)
(* calls detect_shifts in the step that ends it, on the tables as they are *)
(* after that step's ingestion and before its create_alerts; the rows the  *)
(* step appends to the alert table are the candidates detect_shifts        *)
(* returned.                                                               *)
(***************************************************************************)
DetectionStep == \E p \in Passes : pass[p].pc = "refresh" /\ pass'[p].pc = "idle"

\* The candidates returned in this step, as the alert rows recorded for them.
Candidates == {alert'[i] : i \in (Len(alert) + 1) .. Len(alert')}

\* The indexes of the rows of an outcome inside the detection window, in a
\* snapshot table.
InWindow(snap, m, o) ==
    {i \in DOMAIN snap : /\ snap[i].market_id = m
                         /\ snap[i].outcome_id = o
                         /\ snap[i].ts >= now - SHIFT_DETECTION_WINDOW_HOURS}

Newest(rows) == CHOOSE i \in rows : \A j \in rows : j <= i
Oldest(rows) == CHOOSE i \in rows : \A j \in rows : i <= j

OutcomeIds == {outcome[i].id : i \in DOMAIN outcome}

\* The pair has an active alert created within the cooldown before now.
ActiveInCooldown(m, o) ==
    \E i \in DOMAIN alert :
        /\ alert[i].market_id = m /\ alert[i].outcome_id = o
        /\ alert[i].status = "active"
        /\ now - alert[i].ts <= ALERT_COOLDOWN_MINUTES

\* The window extremes of the outcome differ by the absolute threshold or more
\* and its newest volume is at or above the volume floor.
LargeMove(m, o) ==
    LET rows == InWindow(snapshot, m, o)
    IN /\ Cardinality(rows) >= 2
       /\ Abs(snapshot[Newest(rows)].prob - snapshot[Oldest(rows)].prob)
             >= ABSOLUTE_DELTA_THRESHOLD
       /\ snapshot[Newest(rows)].volume >= MIN_VOLUME_THRESHOLD

\* The latest batch was written in this tick and the pass that wrote it has
\* ended: its detection ran on the tables as they are now, alerts aside.
DetectedNow ==
    /\ pass["job"].pc = "idle"
    /\ snapshot # <<>> /\ snapshot[Len(snapshot)].ts = now

\* C1: detect_shifts returns no candidate for a pair that has an active alert
\* created within the cooldown duration before now, whatever its snapshots are.
C1_CooldownSuppresses ==
    [][DetectionStep => \A c \in Candidates :
                            ~ActiveInCooldown(c.market_id, c.outcome_id)]_vars

\* A batch ingested after an alert of the pair was recorded (the newest
\* probability is not the alert's) and within its cooldown keeps the window
\* extremes above the threshold, and the detection of that batch recorded
\* no further alert.
C1_Witness ==
    /\ DetectedNow
    /\ \E m \in tracked_market : \E o \in OutcomeIds :
          /\ LargeMove(m, o)
          /\ ActiveInCooldown(m, o)
          /\ \A i \in DOMAIN alert :
                (alert[i].market_id = m /\ alert[i].outcome_id = o)
                => alert[i].new_prob # snapshot[Newest(InWindow(snapshot, m, o))].prob

\* C2: every candidate has delta = latest.prob - previous.prob and satisfies
\* |delta| >= absolute_threshold or |delta_percent| >= relative_threshold*100;
\* a move from 0.20 to 0.21 yields no candidate.
C2_TriggerInvariant ==
    [][DetectionStep => \A c \in Candidates :
          LET rows == InWindow(snapshot', c.market_id, c.outcome_id)
          IN /\ Cardinality(rows) >= 2
             /\ c.new_prob = snapshot'[Newest(rows)].prob
             /\ c.prev_prob = snapshot'[Oldest(rows)].prob
             /\ c.delta = c.new_prob - c.prev_prob
             /\ c.delta_percent[2] > 0
             /\ c.prev_prob > 0 =>
                   c.delta_percent[1] * c.prev_prob = 100 * c.delta * c.delta_percent[2]
             /\ \/ Abs(c.delta) >= ABSOLUTE_DELTA_THRESHOLD
                \/ Abs(c.delta_percent[1])
                      >= RELATIVE_DELTA_THRESHOLD * c.delta_percent[2]
             /\ ~(c.prev_prob = 20 /\ c.new_prob = 21)
      ]_vars

\* An alert was recorded for a move of the threshold or more, and the detection
\* of the latest batch, outside any cooldown, saw an outcome move from 0.20 to
\* 0.21 over its window and recorded no alert.
C2_Witness ==
    /\ DetectedNow
    /\ \E i \in DOMAIN alert : Abs(alert[i].delta) >= ABSOLUTE_DELTA_THRESHOLD
    /\ \A i \in DOMAIN alert : alert[i].ts # now
    /\ \E m \in tracked_market : \E o \in OutcomeIds :
          LET rows == InWindow(snapshot, m, o)
          IN /\ Cardinality(rows) >= 2
             /\ snapshot[Oldest(rows)].prob = 20
             /\ snapshot[Newest(rows)].prob = 21
             /\ snapshot[Newest(rows)].volume >= MIN_VOLUME_THRESHOLD
             /\ ~ActiveInCooldown(m, o)

\* C3: an outcome whose newest in-window snapshot has a volume that is present
\* and strictly below min_volume_threshold, 0 included, gets no candidate.
C3_VolumeFloor ==
    [][DetectionStep => \A c \in Candidates :
          LET rows == InWindow(snapshot', c.market_id, c.outcome_id)
              volume == snapshot'[Newest(rows)].volume
          IN ~(volume # None /\ volume < MIN_VOLUME_THRESHOLD)
      ]_vars

\* C10: an outcome with fewer than 2 snapshots inside the window gets no
\* candidate, and a market with fewer than 2 in-window snapshots in total gets
\* the empty list.
C10_TwoSnapshotsNeeded ==
    [][DetectionStep => \A c \in Candidates :
          /\ Cardinality(InWindow(snapshot', c.market_id, c.outcome_id)) >= 2
          /\ Cardinality({i \in DOMAIN snapshot' :
                             /\ snapshot'[i].market_id = c.market_id
                             /\ snapshot'[i].ts >= now - SHIFT_DETECTION_WINDOW_HOURS})
                >= 2
      ]_vars

\* The latest batch gave an outcome its only snapshot inside the window, an
\* older one outside the window differs from it by the threshold or more, and
\* the detection of that batch recorded no alert.
C10_Witness ==
    /\ DetectedNow
    /\ \A i \in DOMAIN alert : alert[i].ts # now
    /\ \E m \in tracked_market : \E o \in OutcomeIds :
          LET rows == InWindow(snapshot, m, o)
          IN /\ Cardinality(rows) = 1
             /\ snapshot[Newest(rows)].volume >= MIN_VOLUME_THRESHOLD
             /\ \E i \in DOMAIN snapshot :
                   /\ snapshot[i].market_id = m /\ snapshot[i].outcome_id = o
                   /\ i \notin rows
                   /\ Abs(snapshot[Newest(rows)].prob - snapshot[i].prob)
                         >= ABSOLUTE_DELTA_THRESHOLD

\* C11: for an outcome whose oldest in-window snapshot has probability 0,
\* detect_shifts computes delta_percent = 0 exactly, so the outcome is a
\* candidate only when |delta| >= absolute_threshold.
C11_ZeroDivisionGuard ==
    [][DetectionStep => \A c \in Candidates :
          LET rows == InWindow(snapshot', c.market_id, c.outcome_id)
          IN snapshot'[Oldest(rows)].prob = 0
                => /\ c.prev_prob = 0
                   /\ c.delta_percent[1] = 0
                   /\ Abs(c.delta) >= ABSOLUTE_DELTA_THRESHOLD
      ]_vars

\* The detection of the latest batch saw an outcome move from probability 0 to
\* a positive probability below the absolute threshold, outside any cooldown,
\* and recorded no alert; an earlier detection recorded an alert for a move
\* away from probability 0.
C11_Witness ==
    /\ DetectedNow
    /\ \E i \in DOMAIN alert : alert[i].prev_prob = 0 /\ alert[i].delta_percent[1] = 0
    /\ \A i \in DOMAIN alert : alert[i].ts # now
    /\ \E m \in tracked_market : \E o \in OutcomeIds :
          LET rows == InWindow(snapshot, m, o)
          IN /\ Cardinality(rows) >= 2
             /\ snapshot[Oldest(rows)].prob = 0
             /\ snapshot[Newest(rows)].prob > 0
             /\ snapshot[Newest(rows)].volume >= MIN_VOLUME_THRESHOLD
             /\ ~ActiveInCooldown(m, o)

\* C13: when the market data source is unavailable for an instrument (HTTP
\* error status, network error, empty response), create_snapshot_for_market
\* writes no Outcome row and no Snapshot row: both tables are as before.
C13_UnavailableWritesNothing ==
    [][\A response \in Unavailable :
          Ingest("job", response, "ok", 0)
             => /\ snapshot' = snapshot
                /\ outcome' = outcome
                /\ tracked_market' = tracked_market
      ]_vars

\* Two passes have ended and the store holds a single batch: the source was
\* unavailable in the other pass, after or before the batch was written.
C13_Witness ==
    /\ pass["job"].pc = "idle"
    /\ started = 2
    /\ Len(snapshot) = 2

(***************************************************************************)
(* Properties of the ingestion (checked under SpecFeed).                   *)
(***************************************************************************)
\* The snapshot rows this step wrote: one batch, since a step ingests at most
\* one market.
BatchWritten == SubSeq(snapshot', Len(snapshot) + 1, Len(snapshot'))

RECURSIVE SumProb(_)
SumProb(rows) == IF rows = <<>> THEN 0 ELSE Head(rows).prob + SumProb(Tail(rows))

\* C12: the probabilities of all snapshot rows written for the instrument in one
\* ingestion batch sum to 1 across all of its outcomes, also when the event
\* holds several sub-markets.
C12_BatchSumsToOne ==
    [][BatchWritten # <<>> => SumProb(BatchWritten) = ProbScale]_vars

(***************************************************************************)
(* Properties of a pass over several markets (checked under SpecIngest).   *)
(***************************************************************************)
\* C14: in one pass of refresh_all_tracked_markets over several instruments, a
\* failure while ingesting one instrument (fetch error, malformed data, store
\* write error on the shared session) never keeps the remaining instruments
\* from being ingested: the pass ends only with the ingestion of its last
\* instrument, and no step ends it while instruments are still to ingest.
C14_FailureIsolation ==
    [][\A p \in Passes :
          (pass[p].pc = "refresh" /\ pass'[p].pc = "idle")
             => Len(pass[p].todo) = 1
      ]_vars

C6_NoDoubleAlertInCooldown ==
    \A i, j \in DOMAIN alert :
        (/\ i # j
         /\ alert[i].market_id = alert[j].market_id
         /\ alert[i].outcome_id = alert[j].outcome_id
         /\ alert[i].status = "active" /\ alert[j].status = "active")
        => Abs(alert[i].ts - alert[j].ts) >= ALERT_COOLDOWN_MINUTES

\* A pass is suspended in its fetch while another pass has just recorded an
\* alert for a pair whose snapshots still exceed the threshold.
C6_Witness ==
    /\ \E p \in Passes : pass[p].pc = "refresh"
    /\ \E m \in tracked_market : \E o \in OutcomeIds :
          /\ LargeMove(m, o)
          /\ \E i \in DOMAIN alert :
                /\ alert[i].market_id = m /\ alert[i].outcome_id = o
                /\ alert[i].status = "active" /\ alert[i].ts = now

\* C7: every alert's status is active or acknowledged, the only status change
\* is active -> acknowledged, and no step (ingestion, detection, cleanup,
\* acknowledgement) deletes or renumbers an alert.
C7_AlertLifecycle ==
    [][/\ \A i \in DOMAIN alert' : alert'[i].status \in {"active", "acknowledged"}
       /\ \A i \in DOMAIN alert :
             /\ i \in DOMAIN alert'
             /\ alert'[i].id = alert[i].id
             /\ alert'[i].status # alert[i].status
                   => alert[i].status = "active" /\ alert'[i].status = "acknowledged"
      ]_vars

\* An alert was acknowledged while another one is active.
C7_Witness ==
    /\ \E i \in DOMAIN alert : alert[i].status = "acknowledged"
    /\ \E i \in DOMAIN alert : alert[i].status = "active"

\* C8: acknowledging an alert that is already acknowledged answers success and
\* changes no field of it nor any other alert.
C8_AcknowledgeIdempotent ==
    [][\A alert_id \in 1 .. Len(alert) :
          (/\ acknowledge_alert(alert_id)
           /\ \E i \in DOMAIN alert :
                 alert[i].id = alert_id /\ alert[i].status = "acknowledged")
          => alert' = alert /\ reply'.code = 200
      ]_vars

\* The latest step acknowledged, with success, an alert that was acknowledged
\* before.
C8_Witness == reply.code = 200 /\ reply.prior = "acknowledged"

\* C9: acknowledging an alert id that does not exist answers 404 and leaves
\* every stored alert unchanged.
C9_AcknowledgeNotFound ==
    [][\A alert_id \in 1 .. Len(alert) + 1 :
          (/\ acknowledge_alert(alert_id)
           /\ \A i \in DOMAIN alert : alert[i].id # alert_id)
          => alert' = alert /\ reply' = [code |-> 404, prior |-> "none"]
      ]_vars

\* An acknowledgement answered 404 while alerts are stored.
C9_Witness == reply.code = 404 /\ alert # <<>>

(***************************************************************************)
(* Properties of the broadcast loops (checked under SpecWS).               *)
(***************************************************************************)
\* The loops of a market that are running: tasks that have started, have not
\* ended and have no cancellation on its way to them.
RunningLoops(m) ==
    {t \in DOMAIN tasks : /\ tasks[t].market_id = m
                          /\ tasks[t].pc \notin {"created", "done"}
                          /\ ~tasks[t].must_cancel}

\* C4: under any interleaving of connect, disconnect and failed pushes, at
\* most one broadcast loop is running per instrument at any time.
C4_AtMostOneLoop == \A m \in WsMarketIds : Cardinality(RunningLoops(m)) <= 1

\* C5: a loop whose cancellation was requested, because the last subscriber of
\* its instrument detached, ends at the latest at its next sleep boundary: it
\* never passes the loop condition into another fetch.
C5_CancelledLoopEnds ==
    \A t \in DOMAIN tasks :
        tasks[t].cancelled => ~(tasks[t].pc = "fetch" /\ ~tasks[t].must_cancel)

\* The websocket is in no subscriber set and not in the connection map.
Detached(ws, conns, cmap) ==
    /\ ws \notin DOMAIN cmap
    /\ \A m \in DOMAIN conns : ws \notin conns[m]

\* C16: a subscriber whose push fails during a broadcast is detached as part of
\* that broadcast, while the remaining subscribers of the copy still get their
\* push; and when the broadcast leaves the instrument without subscribers, the
\* instrument is Idle: its registry entries are removed and no loop of it is
\* left running (each has ended or has its cancellation requested).
C16_FailedPushDetaches ==
    [][\A t \in DOMAIN tasks : \A ok \in BOOLEAN :
          LoopSentResult(t, ok) =>
             LET failed == IF ok THEN tasks[t].disconnected
                           ELSE tasks[t].disconnected \cup {tasks[t].sending}
                 m == tasks[t].market_id
             IN IF tasks[t].pending # {}
                THEN /\ tasks'[t].pc = "send"
                     /\ tasks'[t].sending \in tasks[t].pending
                     /\ tasks'[t].disconnected = failed
                ELSE /\ \A ws \in failed :
                           Detached(ws, active_connections', connection_markets')
                     /\ (failed # {} /\ m \notin DOMAIN active_connections')
                           => /\ m \notin DOMAIN broadcast_tasks'
                              /\ \A u \in DOMAIN tasks' :
                                    tasks'[u].market_id = m
                                       => \/ tasks'[u].pc = "done"
                                          \/ tasks'[u].must_cancel
      ]_vars

\* C17: a failed market-data or trades fetch never ends the broadcast loop.  A
\* task that is suspended in a fetch and has no cancellation requested does
\* not end in that step, whatever the fetch answers, and a task whose sleep
\* ends goes back to the market-data fetch as long as its market has a
\* subscriber.
C17_FailedFetchKeepsLoop ==
    [][\A t \in DOMAIN tasks :
          /\ (tasks[t].pc \in {"fetch", "trades", "trades_alt"} /\ ~tasks[t].must_cancel)
                => tasks'[t].pc # "done"
          /\ (tasks[t].pc = "fetch" /\ tasks'[t].pc # "fetch" /\ ~tasks[t].must_cancel)
                => tasks'[t].pc \in {"trades", "sleep"}
          /\ (tasks[t].pc \in {"sleep", "sleep_exc"} /\ tasks'[t].pc # tasks[t].pc
                  /\ ~tasks[t].must_cancel
                  /\ tasks[t].market_id \in DOMAIN active_connections)
                => tasks'[t].pc = "fetch"
      ]_vars

\* A trades fetch has raised into the loop, which waits for its next cycle, not
\* cancelled and with a subscriber still there.
C17_Witness ==
    \E t \in DOMAIN tasks :
        /\ tasks[t].pc = "sleep_exc"
        /\ ~tasks[t].must_cancel
        /\ tasks[t].market_id \in DOMAIN active_connections
        /\ broadcast_tasks[tasks[t].market_id] = t

\* C18: deleting an instrument removes all of its Outcomes, Snapshots and
\* Alerts: after a delete_tracked_market step no stored outcome, snapshot or
\* alert references the instrument that was deleted.
C18_DeleteRemovesAll ==
    [][\A m \in tracked_market \ tracked_market' :
          /\ \A i \in DOMAIN outcome' : outcome'[i].market_id # m
          /\ \A i \in DOMAIN snapshot' : snapshot'[i].market_id # m
          /\ \A i \in DOMAIN alert' : alert'[i].market_id # m
      ]_vars

\* C19: all Snapshot rows written by one ingestion call carry the same
\* timestamp (and become durable in the one commit of the call): the rows a
\* step appends to the snapshot table all have one ts.
C19_BatchSharesTimestamp ==
    [][Len(snapshot') > Len(snapshot)
          => \A i, j \in DOMAIN BatchWritten : BatchWritten[i].ts = BatchWritten[j].ts
      ]_vars

\* The market states with one malformed outcome (no token identifier, a price
\* that is no number, no record) next to the well-formed outcome m * 10 + 2.
MalformedStates(m) == {NoIdEvent(m), TextPriceEvent(m), NotADictEvent(m)}

\* C20: malformed market data degrades per outcome.  When the scheduled pass
\* ingests a market state whose first outcome is malformed, the batch holds
\* exactly the snapshot row of the well-formed sibling, and no Outcome row is
\* stored for the outcome without token identifier.
C20_MalformedOutcomeSkipped ==
    [][\A m \in Markets : \A e \in MalformedStates(m) :
          Ingest("job", [status |-> "ok", json |-> e], "ok", 0)
             => /\ Len(BatchWritten) = 1
                /\ outcome'[BatchWritten[1].outcome_id].outcome_id = m * 10 + 2
                /\ \A i \in DOMAIN outcome' : outcome'[i].outcome_id # None
      ]_vars

\* The window extremes of the outcome, in the snapshot table snap, exceed the
\* absolute threshold (in hundredths), the relative threshold (in percent of
\* the oldest probability, which is positive), or either.
AbsoluteMove(snap, m, o) ==
    LET rows == InWindow(snap, m, o)
    IN Abs(snap[Newest(rows)].prob - snap[Oldest(rows)].prob) >= ABSOLUTE_DELTA_THRESHOLD

RelativeMove(snap, m, o) ==
    LET rows == InWindow(snap, m, o)
        prev == snap[Oldest(rows)].prob
    IN /\ prev > 0
       /\ Abs(snap[Newest(rows)].prob - prev) * 100 >= RELATIVE_DELTA_THRESHOLD * prev

\* C21: detector completeness, either trigger alone.  Every outcome with at
\* least 2 in-window snapshots, no active alert inside the cooldown and a
\* newest volume that is missing (stored as 0 by the ingestion, or null) or at
\* least min_volume_threshold is a candidate of the detection as soon as the
\* absolute or the relative threshold is reached.
C21_EitherTriggerFlags ==
    [][DetectionStep =>
          \A m \in tracked_market' : \A i \in DOMAIN outcome' :
             LET o == outcome'[i].id
                 rows == InWindow(snapshot', m, o)
                 volume == snapshot'[Newest(rows)].volume
             IN (/\ Cardinality(rows) >= 2
                 /\ ~ActiveInCooldown(m, o)
                 /\ volume = None \/ volume = 0 \/ volume >= MIN_VOLUME_THRESHOLD
                 /\ AbsoluteMove(snapshot', m, o) \/ RelativeMove(snapshot', m, o))
                => \E c \in Candidates : c.market_id = m /\ c.outcome_id = o
      ]_vars

\* The ledger holds an alert recorded on the relative threshold alone, for a
\* market state without volume, and one recorded on the absolute threshold
\* alone.
C21_Witness ==
    /\ \E i \in DOMAIN alert :
          /\ Abs(alert[i].delta) < ABSOLUTE_DELTA_THRESHOLD
          /\ relative_shift(alert[i].delta_percent)
          /\ alert[i].volume = 0
    /\ \E i \in DOMAIN alert :
          /\ Abs(alert[i].delta) >= ABSOLUTE_DELTA_THRESHOLD
          /\ ~relative_shift(alert[i].delta_percent)

\* C22: window extremes.  Every candidate compares the newest snapshot of its
\* outcome with the oldest one inside [now - window, now], and an outcome
\* whose two window extremes reach neither threshold is no candidate, whatever
\* the samples in between or before the window are.
C22_WindowExtremes ==
    [][DetectionStep =>
          /\ \A c \in Candidates :
                LET rows == InWindow(snapshot', c.market_id, c.outcome_id)
                IN /\ c.prev_prob = snapshot'[Oldest(rows)].prob
                   /\ c.new_prob = snapshot'[Newest(rows)].prob
                   /\ c.delta = snapshot'[Newest(rows)].prob - snapshot'[Oldest(rows)].prob
          /\ \A m \in tracked_market' : \A i \in DOMAIN outcome' :
                LET o == outcome'[i].id
                IN (/\ Cardinality(InWindow(snapshot', m, o)) >= 2
                    /\ ~AbsoluteMove(snapshot', m, o)
                    /\ ~RelativeMove(snapshot', m, o))
                   => ~\E c \in Candidates : c.market_id = m /\ c.outcome_id = o
      ]_vars

\* The detection of the latest batch, outside any cooldown, found three or
\* more snapshots of an outcome in the window, the oldest at 0.20 and the
\* newest at 0.21 with 0.40 in between, and recorded no alert: the adjacent
\* samples 0.40 and 0.21 differ by more than the threshold.
C22_Witness ==
    /\ DetectedNow
    /\ \A i \in DOMAIN alert : alert[i].ts # now
    /\ \E m \in tracked_market : \E o \in OutcomeIds :
          LET rows == InWindow(snapshot, m, o)
          IN /\ Cardinality(rows) >= 3
             /\ snapshot[Oldest(rows)].prob = 20
             /\ snapshot[Newest(rows)].prob = 21
             /\ snapshot[Newest(rows \ {Newest(rows)})].prob = 40
             /\ snapshot[Newest(rows)].volume >= MIN_VOLUME_THRESHOLD
             /\ ~ActiveInCooldown(m, o)

\* C23: every candidate carries volume_impact = |delta| * v, with v the newest
\* snapshot's volume or 0 when it is missing, and the impact is no part of the
\* decision: a move over the absolute threshold is flagged outside the
\* cooldown also when its impact is 0.  A move from 0.30 to 0.40 at volume 500
\* has the impact 50 (10 hundredths times 500).
C23_VolumeImpact ==
    [][DetectionStep =>
          /\ \A c \in Candidates :
                LET rows == InWindow(snapshot', c.market_id, c.outcome_id)
                    volume == snapshot'[Newest(rows)].volume
                    v == IF volume = None THEN 0 ELSE volume
                IN /\ c.volume = v
                   /\ c.volume_impact = Abs(c.delta) * v
                   /\ (c.prev_prob = 30 /\ c.new_prob = 40 /\ volume = 500)
                         => c.volume_impact = 50 * ProbScale
          /\ \A m \in tracked_market' : \A i \in DOMAIN outcome' :
                LET o == outcome'[i].id
                    rows == InWindow(snapshot', m, o)
                IN (/\ Cardinality(rows) >= 2
                    /\ ~ActiveInCooldown(m, o)
                    /\ snapshot'[Newest(rows)].volume \in {None, 0}
                    /\ AbsoluteMove(snapshot', m, o))
                   => \E c \in Candidates :
                         c.market_id = m /\ c.outcome_id = o /\ c.volume_impact = 0
      ]_vars

\* The ledger holds the alert of the move 0.30 to 0.40 at volume 500 with the
\* impact 50, and an alert with the impact 0.
C23_Witness ==
    /\ \E i \in DOMAIN alert :
          /\ alert[i].prev_prob = 30 /\ alert[i].new_prob = 40
          /\ alert[i].volume = 500
          /\ alert[i].volume_impact = 50 * ProbScale
    /\ \E i \in DOMAIN alert :
          /\ Abs(alert[i].delta) >= ABSOLUTE_DELTA_THRESHOLD
          /\ alert[i].volume_impact = 0

\* C24: cooldown scope.  An outcome whose window extremes exceed the absolute
\* threshold at a sufficient volume is left out of the candidates only if an
\* active alert of the same instrument and the same outcome was created within
\* the cooldown; acknowledged alerts, older alerts and the alerts of another
\* outcome never suppress it.
C24_CooldownScope ==
    [][DetectionStep =>
          \A m \in tracked_market' : \A i \in DOMAIN outcome' :
             LET o == outcome'[i].id
                 rows == InWindow(snapshot', m, o)
             IN (/\ Cardinality(rows) >= 2
                 /\ snapshot'[Newest(rows)].volume >= MIN_VOLUME_THRESHOLD
                 /\ AbsoluteMove(snapshot', m, o)
                 /\ ~\E c \in Candidates : c.market_id = m /\ c.outcome_id = o)
                => \E k \in DOMAIN alert :
                      /\ alert[k].market_id = m /\ alert[k].outcome_id = o
                      /\ alert[k].status = "active"
                      /\ alert[k].ts >= now - ALERT_COOLDOWN_MINUTES
      ]_vars

\* An outcome was flagged again within the cooldown of its acknowledged alert,
\* while the other outcome of the instrument had an active alert from the same
\* moment and was not flagged again.
C24_Witness ==
    \E j, k \in DOMAIN alert :
        /\ j < k
        /\ alert[j].market_id = alert[k].market_id
        /\ alert[j].outcome_id = alert[k].outcome_id
        /\ alert[j].status = "acknowledged"
        /\ alert[k].ts - alert[j].ts <= ALERT_COOLDOWN_MINUTES
        /\ \E i \in DOMAIN alert :
              /\ alert[i].market_id = alert[k].market_id
              /\ alert[i].outcome_id # alert[k].outcome_id
              /\ alert[i].status = "active"
              /\ alert[i].ts = alert[j].ts
              /\ \A n \in DOMAIN alert :
                    (alert[n].outcome_id = alert[i].outcome_id) => n = i

\* C25: the cooldown is the only duplicate suppression.  A pair that was
\* alerted before, and whose alerts are all older than the cooldown, is a
\* candidate again in every detection in which its window extremes still
\* reach a threshold, also when no snapshot with another probability arrived
\* since its last alert.
C25_RealertAfterCooldown ==
    [][DetectionStep =>
          \A m \in tracked_market' : \A i \in DOMAIN outcome' :
             LET o == outcome'[i].id
                 rows == InWindow(snapshot', m, o)
                 volume == snapshot'[Newest(rows)].volume
                 prior == {k \in DOMAIN alert :
                              alert[k].market_id = m /\ alert[k].outcome_id = o}
             IN (/\ prior # {}
                 /\ \A k \in prior : alert[k].ts < now - ALERT_COOLDOWN_MINUTES
                 /\ Cardinality(rows) >= 2
                 /\ volume \in {None, 0} \/ volume >= MIN_VOLUME_THRESHOLD
                 /\ AbsoluteMove(snapshot', m, o) \/ RelativeMove(snapshot', m, o))
                => \E c \in Candidates :
                      /\ c.market_id = m /\ c.outcome_id = o
                      /\ c.prev_prob = snapshot'[Oldest(rows)].prob
                      /\ c.new_prob = snapshot'[Newest(rows)].prob
      ]_vars

\* The same move was alerted twice, the second time after the cooldown of the
\* first, and no snapshot was written after the first alert.
C25_Witness ==
    \E j, k \in DOMAIN alert :
        /\ j < k
        /\ alert[j].market_id = alert[k].market_id
        /\ alert[j].outcome_id = alert[k].outcome_id
        /\ alert[j].prev_prob = alert[k].prev_prob
        /\ alert[j].new_prob = alert[k].new_prob
        /\ alert[k].ts > alert[j].ts + ALERT_COOLDOWN_MINUTES
        /\ \A i \in DOMAIN snapshot : snapshot[i].ts <= alert[j].ts

\* C26: detection failure isolation.  When detect_shifts or create_alerts
\* raises for one instrument in a pass, the detection still runs for the other
\* tracked instruments: each of their outcomes whose window extremes exceed
\* the absolute threshold at a sufficient volume, outside any cooldown, is
\* alerted in that pass.
C26_DetectionIsolation ==
    [][\A p \in Passes : \A raising \in RaisingSets :
       \A response \in FetchResults(ShiftStates(1) \cup ShiftStates(2)) :
          (IngestDetect(p, response, raising) /\ pass'[p].pc = "idle")
          => \A m \in tracked_market' \ raising : \A i \in DOMAIN outcome' :
                LET o == outcome'[i].id
                    rows == InWindow(snapshot', m, o)
                IN (/\ Cardinality(rows) >= 2
                    /\ ~ActiveInCooldown(m, o)
                    /\ snapshot'[Newest(rows)].volume >= MIN_VOLUME_THRESHOLD
                    /\ AbsoluteMove(snapshot', m, o))
                   => \E c \in Candidates : c.market_id = m /\ c.outcome_id = o
      ]_vars

\* The loops of a market that have not ended.
LiveLoops(m) ==
    {t \in DOMAIN tasks : tasks[t].market_id = m /\ tasks[t].pc # "done"}

\* C27: push liveness, the part about the loop.  Whenever an instrument id has
\* at least one attached subscriber, a broadcast loop of that id is alive
\* (created or running, not ended), for every id a subscriber can attach to.
C27_LoopWhileSubscribed ==
    \A m \in DOMAIN active_connections :
        active_connections[m] # {} => LiveLoops(m) # {}

\* C28: no push after detach.  A broadcast starts a send only on a websocket
\* that is registered at that moment: once disconnect has run for a
\* subscriber, no loop begins a send_json on it, also when the detach happens
\* while the broadcast is on its way through the copy of the subscriber set.
C28_NoPushAfterDetach ==
    [][\A t \in DOMAIN tasks :
          (/\ tasks'[t].pc = "send"
           /\ tasks[t].pc # "send" \/ tasks'[t].sending # tasks[t].sending)
          => tasks'[t].sending \in DOMAIN connection_markets
      ]_vars

\* C29: outcome uniqueness.  After any interleaving of the scheduled refresh,
\* the manual refresh and the price-snapshot job there is at most one Outcome
\* row per (instrument, external token identifier), and every snapshot of a
\* token refers to that row.
C29_OutcomeUnique ==
    /\ \A i, j \in DOMAIN outcome :
          (/\ outcome[i].market_id = outcome[j].market_id
           /\ outcome[i].outcome_id = outcome[j].outcome_id) => i = j
    /\ \A i \in DOMAIN outcome : outcome[i].id = i
    /\ \A i \in DOMAIN snapshot : snapshot[i].outcome_id \in DOMAIN outcome

\* The manual refresh has just tried to create the Outcome of a token that the
\* price job had flushed and not yet committed: its flush failed on the locked
\* database (answer 500), and the job still holds its row.
C29_Witness ==
    /\ reply.code = 500
    /\ pass["price"].pc = "history"
    /\ pass["price"].added # <<>>

\* C30: registry consistency.  After every completed connect or disconnect a
\* subscriber is in active_connections[m] exactly when connection_markets maps
\* it to m, no instrument maps to an empty subscriber set, and an instrument
\* has an entry in broadcast_tasks exactly when it has one in
\* active_connections; a disconnect of a subscriber that is not registered
\* changes nothing.
C30_RegistryConsistent ==
    [][/\ \A ws \in Sockets : \A m \in WsMarketIds :
             (m \in DOMAIN active_connections' /\ ws \in active_connections'[m])
             <=> (ws \in DOMAIN connection_markets' /\ connection_markets'[ws] = m)
       /\ \A m \in DOMAIN active_connections' : active_connections'[m] # {}
       /\ DOMAIN broadcast_tasks' = DOMAIN active_connections'
       /\ \A t \in DOMAIN tasks :
             (/\ tasks[t].pc = "send" /\ tasks'[t].pc = "sleep"
              /\ tasks[t].disconnected \cup {tasks[t].sending}
                    \subseteq Sockets \ DOMAIN connection_markets)
             => /\ active_connections' = active_connections
                /\ connection_markets' = connection_markets
                /\ broadcast_tasks' = broadcast_tasks
       /\ \A ws \in Sockets \ DOMAIN connection_markets :
             (WsPongFails(ws) \/ WsDisconnect(ws))
             => /\ active_connections' = active_connections
                /\ connection_markets' = connection_markets
                /\ broadcast_tasks' = broadcast_tasks
                /\ tasks' = tasks
      ]_vars

\* The handler of a subscriber of market 1 has ended and the subscriber is in
\* neither registry, while another subscriber of the market stays registered
\* and the market keeps its entry in broadcast_tasks.
C30_Witness ==
    \E ws, other \in Sockets :
        /\ sock[ws].state = "closed"
        /\ sock[ws].market_id = 1
        /\ ws \notin DOMAIN connection_markets
        /\ other \in DOMAIN connection_markets
        /\ connection_markets[other] = 1
        /\ other \in active_connections[1]
        /\ 1 \in DOMAIN broadcast_tasks

====
